---- MODULE Spec2Model ----
(***************************************************************************)
(* Model of the product-page scraper: the single-URL extractor             *)
(* (llmextract.extract_product_data / extract_product_sync) and the batch  *)
(* orchestrator (batch_extract.extract_details).                           *)
(*                                                                         *)
(* Python dicts are records/functions, Python lists are sequences.  A JSON *)
(* value is a record tagged by its Python type, so that values of          *)
(* different types can live in one collection:                             *)
(*   [type |-> "dict", fields |-> f]   [type |-> "list", items |-> s]      *)
(*   [type |-> "str", s |-> t]         [type |-> "int", n |-> t]           *)
(*   [type |-> "NoneType"]             [type |-> "bool", b |-> v]          *)
(* The external crawler and the event-loop runner are inputs: each         *)
(* invocation draws what they do from CrawlBehaviours.                     *)
(***************************************************************************)
EXTENDS Integers, Sequences, FiniteSets, TLC

VARIABLES
    urls,                    \* extract_details argument: the URL list
    delay_between_requests,  \* extract_details argument
    results,                 \* the report dict built by extract_details
    idx,                     \* loop index of enumerate(urls, 1)
    pc,                      \* position of extract_details
    calls,                   \* one entry per extract_product_sync call: the url
                             \* passed and what the crawler / event loop did
    ret,                     \* how the last extract_product_sync call ended
    log                      \* observable events: calls, recordings, sleeps

vars == <<urls, delay_between_requests, results, idx, pc, calls, ret, log>>

(***************************************************************************)
(* Bounds and input sets                                                   *)
(***************************************************************************)
MaxUrls == 2

UrlSet == {"https://good.example/p1", "https://bad.example/p2"}

DelaySet == {-1, 0, 1}

UrlLists == UNION {[1..n -> UrlSet] : n \in 0..MaxUrls}

(***************************************************************************)
(* JSON text as a token sequence                                           *)
(***************************************************************************)
P(c) == [t |-> "punct", v |-> c]
S(s) == [t |-> "string", v |-> s]
N(n) == [t |-> "number", v |-> n]
L(w) == [t |-> "literal", v |-> w]

\* {"product": "Shirt", "brand": "Acme", "price": "$20"}
DocShirt ==
    << P("{"), S("product"), P(":"), S("Shirt"), P(","),
       S("brand"), P(":"), S("Acme"), P(","),
       S("price"), P(":"), S("$20"), P("}") >>
\* {"product": "Mug", "valentines": true, "image_links": ["a.png"]}
DocMug ==
    << P("{"), S("product"), P(":"), S("Mug"), P(","),
       S("valentines"), P(":"), L("true"), P(","),
       S("image_links"), P(":"), P("["), S("a.png"), P("]"), P("}") >>
\* {}
DocEmptyObject == << P("{"), P("}") >>

ObjectDocs == {DocShirt, DocMug, DocEmptyObject}

ScalarDocs == { <<S("Shirt")>>, <<N("42")>>, <<L("null")>>, <<L("true")>> }

Wrap(items) == <<P("[")>> \o items \o <<P("]")>>
Pair(a, b) == <<P("[")>> \o a \o <<P(",")>> \o b \o <<P("]")>>

ListDocs ==
    {Wrap(<<>>)} \cup {Wrap(d) : d \in ObjectDocs}
    \cup {Pair(DocShirt, DocMug), Pair(DocMug, DocShirt)}
    \cup {Wrap(<<S("Shirt")>>), Pair(<<N("42")>>, DocShirt)}

\* not JSON: empty text, an unclosed array, trailing data
MalformedDocs == { <<>>, <<P("["), S("Shirt")>>, DocEmptyObject \o <<P("}")>> }

Documents == ObjectDocs \cup ScalarDocs \cup ListDocs \cup MalformedDocs

ErrorMessages == {"timeout"}

CrawlBehaviours ==
    {[kind |-> "crawled", success |-> TRUE, extracted_content |-> d] : d \in Documents}
    \cup {[kind |-> "crawled", success |-> FALSE, error_message |-> m] : m \in ErrorMessages}
    \cup {[kind |-> "arun_raises", msg |-> "net::ERR_NAME_NOT_RESOLVED"]}
    \cup {[kind |-> "run_raises",
           msg |-> "asyncio.run() cannot be called from a running event loop"]}

(***************************************************************************)
(* json.loads on a token sequence                                          *)
(***************************************************************************)
JDict(f) == [type |-> "dict", fields |-> f]
JList(s) == [type |-> "list", items |-> s]
JStr(s) == [type |-> "str", s |-> s]
JInt(n) == [type |-> "int", n |-> n]
JBool(b) == [type |-> "bool", b |-> b]
JNone == [type |-> "NoneType"]

ParseFail == [ok |-> FALSE]
Parsed(v, i) == [ok |-> TRUE, val |-> v, next |-> i]

IsPunct(toks, i, c) == i <= Len(toks) /\ toks[i].t = "punct" /\ toks[i].v = c

RECURSIVE ParseValue(_, _)
RECURSIVE ParseItems(_, _, _)
RECURSIVE ParseMembers(_, _, _)

\* items after "[" or ","; acc holds the items parsed so far
ParseItems(toks, i, acc) ==
    LET r == ParseValue(toks, i) IN
    IF ~r.ok THEN ParseFail
    ELSE IF IsPunct(toks, r.next, ",") THEN ParseItems(toks, r.next + 1, Append(acc, r.val))
    ELSE IF IsPunct(toks, r.next, "]") THEN Parsed(JList(Append(acc, r.val)), r.next + 1)
    ELSE ParseFail

\* members after "{" or ","; a repeated key keeps its last value
ParseMembers(toks, i, acc) ==
    IF i + 1 <= Len(toks) /\ toks[i].t = "string" /\ IsPunct(toks, i + 1, ":")
    THEN LET r == ParseValue(toks, i + 2)
             f == IF r.ok THEN (toks[i].v :> r.val) @@ acc ELSE acc
         IN  IF ~r.ok THEN ParseFail
             ELSE IF IsPunct(toks, r.next, ",") THEN ParseMembers(toks, r.next + 1, f)
             ELSE IF IsPunct(toks, r.next, "}") THEN Parsed(JDict(f), r.next + 1)
             ELSE ParseFail
    ELSE ParseFail

ParseValue(toks, i) ==
    IF i > Len(toks) THEN ParseFail
    ELSE LET tok == toks[i] IN
         CASE tok.t = "string" -> Parsed(JStr(tok.v), i + 1)
           [] tok.t = "number" -> Parsed(JInt(tok.v), i + 1)
           [] tok.t = "literal" ->
                Parsed(IF tok.v = "null" THEN JNone ELSE JBool(tok.v = "true"), i + 1)
           [] IsPunct(toks, i, "[") ->
                IF IsPunct(toks, i + 1, "]") THEN Parsed(JList(<<>>), i + 2)
                ELSE ParseItems(toks, i + 1, <<>>)
           [] IsPunct(toks, i, "{") ->
                IF IsPunct(toks, i + 1, "}") THEN Parsed(JDict(<<>>), i + 2)
                ELSE ParseMembers(toks, i + 1, <<>>)
           [] OTHER -> ParseFail

\* json.loads: the value, or JSONDecodeError on malformed text or extra data
json_loads(toks) ==
    LET r == ParseValue(toks, 1) IN
    IF r.ok /\ r.next = Len(toks) + 1
    THEN [raised |-> FALSE, value |-> r.val]
    ELSE [raised |-> TRUE,
          msg |-> IF r.ok THEN "Extra data" ELSE "Expecting value"]

(***************************************************************************)
(* llmextract.py: the single-URL extractor                                 *)
(***************************************************************************)
NoProductsError == "No products found in extracted data"

\* data[0]
first_item_last(data) == data.items[Len(data.items)]
first_item(data) == data.items[1]

\* the body of extract_product_data once the crawler and LLM strategy exist;
\* b is what crawler.arun did for this url
extract_product_data(url, b) ==
    IF b.kind = "arun_raises"
    THEN [success |-> FALSE, error |-> b.msg, url |-> url]
    ELSE IF b.success
    THEN LET loaded == json_loads(b.extracted_content) IN
         IF loaded.raised
         THEN [success |-> FALSE, error |-> loaded.msg, url |-> url]
         ELSE LET data == loaded.value IN
              IF data.type = "list" /\ Len(data.items) = 0
              THEN [success |-> FALSE, error |-> NoProductsError]
              ELSE [success |-> TRUE,
                    data |-> IF data.type = "list" THEN first_item(data) ELSE data,
                    url |-> url]
    ELSE [success |-> FALSE, error |-> b.error_message, url |-> url]

\* asyncio.run(extract_product_data(...)): returns the coroutine's value, or
\* raises without running it when an event loop is already running
extract_product_sync(url, b) ==
    IF b.kind = "run_raises"
    THEN [kind |-> "raise", msg |-> b.msg]
    ELSE [kind |-> "return", value |-> extract_product_data(url, b)]

NoReturn == [kind |-> "none"]

(***************************************************************************)
(* batch_extract.py: extract_details                                       *)
(***************************************************************************)
\* success_rate as the exact fraction num/den (den = 0 is a division fault)
success_rate_of_failed(report) ==
    IF report.total_urls > 0
    THEN [num |-> report.failed_extractions * 100, den |-> report.total_urls]
    ELSE [num |-> 0, den |-> 1]
success_rate(report) ==
    IF report.total_urls > 0
    THEN [num |-> report.successful_extractions * 100, den |-> report.total_urls]
    ELSE [num |-> 0, den |-> 1]

\* the dict built at the top of extract_details
new_report(url_list) ==
    [total_urls |-> Len(url_list),
     successful_extractions |-> 0,
     failed_extractions |-> 0,
     results |-> <<>>,
     summary |-> [success_rate |-> [num |-> 0, den |-> 1]]]

\* the dict built in the except branch
error_result_bare(msg, url) ==
    [success |-> FALSE, error |-> msg, url |-> url]
error_result(msg, url) ==
    [success |-> FALSE, error |-> "Unexpected error: " \o msg, url |-> url]

\* results["results"].append(outcome)
append_result_front(report, outcome) ==
    [report EXCEPT !.results = <<outcome>> \o @]
append_result(report, outcome) ==
    [report EXCEPT !.results = Append(@, outcome)]

\* the except branch: record the failure and count it
on_exception(report, msg, url) ==
    [append_result(report, error_result(msg, url))
        EXCEPT !.failed_extractions = @ + 1]

\* result['data'].get(...) faults on anything that is not a dict
AttributeErrorMsg(data) == "'" \o data.type \o "' object has no attribute 'get'"

\* the try body after the call returned result, with its except branch
on_return(report, result, url) ==
    IF result.success
    THEN LET counted == [report EXCEPT !.successful_extractions = @ + 1] IN
         IF result.data.type = "dict"
         THEN append_result(counted, result)
         ELSE on_exception(counted, AttributeErrorMsg(result.data), url)
    ELSE append_result([report EXCEPT !.failed_extractions = @ + 1], result)

\* idx < len(urls) and delay_between_requests > 0
should_wait_after_last(i, n, delay) == i <= n /\ delay > 0
should_wait(i, n, delay) == i < n /\ delay > 0

Event(e, i) == [ev |-> e, i |-> i]

Init ==
    /\ urls \in UrlLists
    /\ delay_between_requests \in DelaySet
    /\ results = new_report(urls)
    /\ idx = 1
    /\ pc = "for"
    /\ calls = <<>>
    /\ ret = NoReturn
    /\ log = <<>>

\* Invoke with a second attempt after a failed or raising first call
Invoke_retry ==
    /\ pc = "for"
    /\ idx <= Len(urls)
    /\ \E b1, b2 \in CrawlBehaviours :
        LET first == extract_product_sync(urls[idx], b1)
            failed == first.kind = "raise" \/ ~first.value.success
        IN  /\ calls' = IF failed
                        THEN calls \o <<[url |-> urls[idx], b |-> b1],
                                        [url |-> urls[idx], b |-> b2]>>
                        ELSE Append(calls, [url |-> urls[idx], b |-> b1])
            /\ ret' = IF failed THEN extract_product_sync(urls[idx], b2) ELSE first
    /\ log' = Append(log, Event("call", idx))
    /\ pc' = "try"
    /\ UNCHANGED <<urls, delay_between_requests, results, idx>>

\* result = extract_product_sync(url=url, ...)
Invoke ==
    /\ pc = "for"
    /\ idx <= Len(urls)
    /\ \E b \in CrawlBehaviours :
        /\ calls' = Append(calls, [url |-> urls[idx], b |-> b])
        /\ ret' = extract_product_sync(urls[idx], b)
    /\ log' = Append(log, Event("call", idx))
    /\ pc' = "try"
    /\ UNCHANGED <<urls, delay_between_requests, results, idx>>

\* the rest of the try statement: counters and the appended outcome
Record ==
    /\ pc = "try"
    /\ results' = IF ret.kind = "raise"
                  THEN on_exception(results, ret.msg, urls[idx])
                  ELSE on_return(results, ret.value, urls[idx])
    /\ log' = Append(log, Event("record", idx))
    /\ pc' = "pace"
    /\ UNCHANGED <<urls, delay_between_requests, idx, calls, ret>>

\* time.sleep(delay_between_requests) between two requests
Wait ==
    /\ pc = "pace"
    /\ should_wait(idx, Len(urls), delay_between_requests)
    /\ log' = Append(log, Event("sleep", idx))
    /\ idx' = idx + 1
    /\ pc' = "for"
    /\ UNCHANGED <<urls, delay_between_requests, results, calls, ret>>

\* no delay: after the last URL, or with a delay that is not positive
NoWait ==
    /\ pc = "pace"
    /\ ~should_wait(idx, Len(urls), delay_between_requests)
    /\ idx' = idx + 1
    /\ pc' = "for"
    /\ UNCHANGED <<urls, delay_between_requests, results, calls, ret, log>>

\* the summary statistics after the loop, then return results
Summarize ==
    /\ pc = "for"
    /\ idx > Len(urls)
    /\ results' = [results EXCEPT !.summary.success_rate = success_rate(results)]
    /\ pc' = "return"
    /\ UNCHANGED <<urls, delay_between_requests, idx, calls, ret, log>>

Next == Invoke \/ Record \/ Wait \/ NoWait \/ Summarize

Spec == Init /\ [][Next]_vars

(***************************************************************************)
(* The Product schema (llmextract.py): field names and declared defaults   *)
(***************************************************************************)
RequiredFields == {"product", "brand", "product_description", "price"}

StringFields ==
    RequiredFields \cup
    {"everything_you_need_to_know", "why_we_love_it", "website",
     "delivery_timeline", "age_kids", "gender", "price_bracket", "cities",
     "occasion", "style_tags", "personas"}

BoolFields ==
    {"valentines", "baby_shower", "anniversaries_weddings", "birthdays",
     "house_warmings", "festivals",
     "fitness_sports_enthusiast", "aesthete", "minimalist_functional",
     "maximalist", "fashionable", "foodie", "wellness_seeker", "new_parent",
     "teenagers", "working_professionals", "parents", "bride_groom_to_be"}

ProductFields == StringFields \cup BoolFields \cup {"image_links"}

\* the value an absent field resolves to
FieldDefault(f) ==
    IF f \in BoolFields THEN JBool(FALSE)
    ELSE IF f = "image_links" THEN JList(<<>>)
    ELSE JStr("")

(***************************************************************************)
(* Helpers for the properties                                              *)
(***************************************************************************)
\* number of URLs whose outcome has been recorded
Processed == IF pc = "try" THEN idx - 1 ELSE IF pc = "pace" THEN idx ELSE idx - 1

\* the call whose return value is being handled
LastCall == calls[Len(calls)]

\* the last call reached json.loads and it returned a value
ContentParsed ==
    /\ pc = "try"
    /\ LastCall.b.kind = "crawled"
    /\ LastCall.b.success
    /\ ~json_loads(LastCall.b.extracted_content).raised

ParsedContent == json_loads(LastCall.b.extracted_content).value

\* the object the extractor works on: the parsed object, or the first
\* element of the parsed sequence
IsRawObject ==
    /\ ContentParsed
    /\ \/ ParsedContent.type = "dict"
       \/ /\ ParsedContent.type = "list"
          /\ Len(ParsedContent.items) > 0
          /\ ParsedContent.items[1].type = "dict"

RawObject ==
    IF ParsedContent.type = "dict" THEN ParsedContent ELSE ParsedContent.items[1]

Crawled(d) == [kind |-> "crawled", success |-> TRUE, extracted_content |-> d]

SleepsIn(l) == Cardinality({k \in 1..Len(l) : l[k].ev = "sleep"})

Max(a, b) == IF a >= b THEN a ELSE b

(***************************************************************************)
(* Properties                                                              *)
(***************************************************************************)

\* C1: after every loop iteration successful_extractions + failed_extractions
\* equals the number of URLs processed so far, and in the returned report it
\* equals total_urls.
C1_CountersSumToProcessed ==
    /\ pc \in {"pace", "for", "return"} =>
         results.successful_extractions + results.failed_extractions = Processed
    /\ pc = "return" =>
         results.successful_extractions + results.failed_extractions
            = results.total_urls

\* C2: results holds one entry per processed URL, in input order: entry i
\* belongs to the call made for urls[i] (it is what that call returned, or
\* the failure recorded for urls[i]); the returned report has len(urls)
\* entries.
C2_ResultsMatchUrls ==
    /\ Len(results.results) = Processed
    /\ pc = "return" => Len(results.results) = Len(urls)
    /\ \A i \in 1..Len(results.results) :
         LET entry == results.results[i] IN
         /\ calls[i].url = urls[i]
         /\ \/ extract_product_sync(urls[i], calls[i].b)
                 = [kind |-> "return", value |-> entry]
            \/ /\ DOMAIN entry = {"success", "error", "url"}
               /\ ~entry.success
               /\ entry.url = urls[i]

C2_Witness ==
    /\ pc = "return"
    /\ Len(urls) = 2
    /\ urls[1] = urls[2]
    /\ results.results[1].success
    /\ ~results.results[2].success

\* C3: a call that raises is recorded at its position as
\* {success: false, error: "Unexpected error: " + message, url: urls[i]},
\* every later URL is still called, and the report returned is complete.
C3_ExceptionIsolated ==
    /\ \A i \in 1..Len(results.results) :
         calls[i].b.kind = "run_raises" =>
            results.results[i] =
               [success |-> FALSE,
                error |-> "Unexpected error: " \o calls[i].b.msg,
                url |-> urls[i]]
    /\ pc = "return" =>
         /\ Len(calls) = Len(urls)
         /\ Len(results.results) = Len(urls)
         /\ results.summary.success_rate = success_rate(results)

C3_Witness ==
    /\ pc = "return"
    /\ Len(urls) = 2
    /\ calls[1].b.kind = "run_raises"
    /\ results.results[2].success

\* C4: every outcome returned by extract_product_data has exactly the keys
\* {success, data, url} with success true or {success, error, url} with
\* success false, and url is the URL passed in.
C4_OutcomeShape ==
    (pc = "try" /\ ret.kind = "return") =>
        LET o == ret.value IN
        /\ "url" \in DOMAIN o
        /\ o.url = urls[idx]
        /\ \/ o.success /\ DOMAIN o = {"success", "data", "url"}
           \/ ~o.success /\ DOMAIN o = {"success", "error", "url"}

\* C5: when the raw extracted object omits schema fields the extraction still
\* succeeds and its data holds every Product field, an omitted one with its
\* default (false, "" or []).
C5_DefaultsApplied ==
    IsRawObject =>
        /\ ret.kind = "return"
        /\ ret.value.success
        /\ ret.value.data.type = "dict"
        /\ \A f \in ProductFields :
             /\ f \in DOMAIN ret.value.data.fields
             /\ f \notin DOMAIN RawObject.fields =>
                  ret.value.data.fields[f] = FieldDefault(f)

\* C6: content that parses to an empty sequence gives the failed outcome
\* {success: false, error: <no products found>, url}, nothing is raised, the
\* URL is counted as failed and the later URLs are still processed.
C6_EmptySequenceOutcome ==
    /\ (ContentParsed /\ ParsedContent = JList(<<>>)) =>
          ret = [kind |-> "return",
                 value |-> [success |-> FALSE, error |-> NoProductsError,
                            url |-> urls[idx]]]
    /\ \A i \in 1..Len(results.results) :
          calls[i].b = Crawled(Wrap(<<>>)) => ~results.results[i].success
    /\ pc = "return" => Len(calls) = Len(urls)

\* C7: a non-empty sequence gives a successful outcome whose data is its
\* first element, and when that element is an object the outcome is the one
\* returned for any content that is this object itself.
C7_ListNormalization ==
    (ContentParsed /\ ParsedContent.type = "list" /\ Len(ParsedContent.items) > 0) =>
        LET first == ParsedContent.items[1] IN
        /\ ret = [kind |-> "return",
                  value |-> [success |-> TRUE, data |-> first, url |-> urls[idx]]]
        /\ first.type = "dict" =>
             \A d \in ObjectDocs :
                json_loads(d) = [raised |-> FALSE, value |-> first] =>
                   extract_product_data(urls[idx], Crawled(d)) = ret.value

C7_Witness ==
    /\ pc = "try"
    /\ Len(calls) = 2
    /\ calls[1].b = Crawled(Wrap(DocShirt))
    /\ results.results[1] = extract_product_data(urls[1], Crawled(DocShirt))
    /\ calls[2].b = Crawled(Pair(DocMug, DocShirt))
    /\ ret.value = extract_product_data(urls[2], Crawled(DocMug))

\* C8: a successful outcome always carries an object; content that parses to
\* a string, number, null, boolean, or a sequence whose first element is not
\* an object gives a failed outcome.
C8_NonObjectRejected ==
    /\ (pc = "try" /\ ret.kind = "return" /\ ret.value.success) =>
          ret.value.data.type = "dict"
    /\ (ContentParsed /\ ~IsRawObject) =>
          /\ ret.kind = "return"
          /\ ~ret.value.success

\* C9: a suspension happens only with delay_between_requests > 0, directly
\* after the outcome of URL i < n was recorded and directly before URL i+1 is
\* called; a finished run over n URLs has max(0, n-1) of them with a positive
\* delay and none otherwise.
C9_Pacing ==
    /\ \A k \in 1..Len(log) :
         log[k].ev = "sleep" =>
            /\ delay_between_requests > 0
            /\ log[k].i < Len(urls)
            /\ k > 1
            /\ log[k - 1] = Event("record", log[k].i)
            /\ Len(results.results) >= log[k].i
            /\ k < Len(log) => log[k + 1] = Event("call", log[k].i + 1)
    /\ \A k \in 2..Len(log) :
         (log[k].ev = "call" /\ delay_between_requests > 0) =>
            log[k - 1] = Event("sleep", log[k].i - 1)
    /\ pc = "return" =>
         SleepsIn(log) = IF delay_between_requests > 0
                         THEN Max(0, Len(urls) - 1) ELSE 0

C9_Witness ==
    /\ pc = "return"
    /\ Len(urls) = 2
    /\ delay_between_requests > 0
    /\ SleepsIn(log) = 1
    /\ calls[1].b.kind = "run_raises"

\* C10: the returned success_rate is successful_extractions / total_urls * 100
\* when total_urls > 0 and 0 for an empty list (all counters 0, results
\* empty), its denominator is never 0, and it lies between 0 and 100.
C10_SuccessRate ==
    pc = "return" =>
        LET r == results.summary.success_rate IN
        /\ r.den > 0
        /\ results.total_urls > 0 =>
             r.num * results.total_urls
                = results.successful_extractions * 100 * r.den
        /\ Len(urls) = 0 =>
             /\ r.num = 0
             /\ results.total_urls = 0
             /\ results.successful_extractions = 0
             /\ results.failed_extractions = 0
             /\ results.results = <<>>
        /\ 0 <= r.num
        /\ r.num <= 100 * r.den

C10_Witness ==
    /\ pc = "return"
    /\ results.total_urls = 2
    /\ results.successful_extractions = 1
    /\ results.summary.success_rate = [num |-> 100, den |-> 2]

\* C11: the extract_product_sync invocations are the input URLs, in order and
\* once per occurrence: invocation k is for urls[k] and is the only one for
\* position k (no retry after a failure or an exception), a finished run has
\* made len(urls) invocations, and invocation i+1 is made only after the
\* outcome of position i is in results.
CallEventsUpTo(k) == Cardinality({j \in 1..k : log[j].ev = "call"})

C11_InvocationsFollowUrls ==
    /\ Len(calls) <= Len(urls)
    /\ \A k \in 1..Len(calls) : calls[k].url = urls[k]
    /\ pc = "return" => [k \in 1..Len(calls) |-> calls[k].url] = urls
    /\ CallEventsUpTo(Len(log)) = Len(calls)
    /\ \A k \in 1..Len(log) :
         log[k].ev = "call" =>
            /\ CallEventsUpTo(k) = log[k].i
            /\ log[k].i > 1 =>
                 \E j \in 1..(k - 1) : log[j] = Event("record", log[k].i - 1)
    /\ Len(calls) <= Len(results.results) + 1
    /\ pc = "try" => Len(results.results) = Len(calls) - 1

C11_Witness ==
    /\ pc = "return"
    /\ Len(urls) = 2
    /\ urls[1] = urls[2]
    /\ calls[1].b.kind = "crawled"
    /\ ~calls[1].b.success
    /\ calls[2].b.kind = "run_raises"
    /\ Len(calls) = 2

\* C12: successful_extractions is the number of entries of results with
\* success true and failed_extractions the number with success false, after
\* every recorded outcome and in the returned report.
CountSuccess(flag) ==
    Cardinality({i \in 1..Len(results.results) : results.results[i].success = flag})

C12_CountersMatchResults ==
    pc \in {"pace", "for", "return"} =>
        /\ results.successful_extractions = CountSuccess(TRUE)
        /\ results.failed_extractions = CountSuccess(FALSE)

====
